---- MODULE Spec2Model ----
(***************************************************************************)
(* Model of the topic get-or-create handler of tc-message-service          *)
(* (app/routes/topics/list.js) together with the Discourse client it       *)
(* calls.  Every promise continuation of the handler is one action; the    *)
(* external collaborators (postgres tables, the authorization endpoint,    *)
(* the member service, Discourse) answer nondeterministically.             *)
(***************************************************************************)
EXTENDS Integers, Sequences, FiniteSets, TLC

\* ------------------------------------------------------------ bounds
\* Requests started over one behaviour.
MaxRequests == 2

\* Concurrent request workflows (express serves requests concurrently).
Procs == {"w1", "w2"}
\* Authenticated callers (req.authUser.handle).
Actors == {"alice", "bob"}

Undefined == "undefined"
NoTopic == 0

\* ------------------------------------------------------------ inputs
\* req.query.filter after split('&') and split('=') : a sequence of segments,
\* each segment the sequence of the parts around '='.
Queries ==
  { << <<"reference", "project">>, <<"referenceId", "42">> >>,
    << <<"reference", "challenge">>, <<"referenceId", "42">> >>,
    << <<"reference", "project">>, <<"referenceId", "42">>, <<"createdBy", "nobody">> >>,
    << <<"reference", "project">> >>,
    << <<"">> >>,
    << <<"reference", "project">>, <<"referenceId", "">> >>,
    << <<"reference", "project">>, <<"referenceId", "4", "2">> >> }

\* Rows of the referenceLookups table: the reference types that have an
\* authorization endpoint configured.
referenceLookups == {"project"}

\* Columns of the topics table a where clause can name.
TopicColumns == {"reference", "referenceId", "discourseTopicId", "createdBy"}

\* ------------------------------------------------------------ pure helpers
\* JavaScript property read: a missing property reads as undefined.
Prop(obj, key) == IF key \in DOMAIN obj THEN obj[key] ELSE Undefined

\* JavaScript truthiness of the string values the model uses.
Truthy(v) == v \notin {Undefined, ""}

\* filter[split[0]] = split[1], for the segments that split in exactly two.
RECURSIVE ParseFilter(_)
ParseFilter(segs) ==
  IF segs = <<>> THEN [k \in {} |-> ""]
  ELSE LET rest == ParseFilter(SubSeq(segs, 1, Len(segs) - 1))
           split == segs[Len(segs)]
       IN IF Len(split) = 2
            THEN [k \in (DOMAIN rest) \cup {split[1]} |->
                    IF k = split[1] THEN split[2] ELSE rest[k]]
            ELSE rest

\* (variant: the check for the required filters is missing)
FilterMissingNever(filter) == FALSE
\* if(!filter.reference || !filter.referenceId)
FilterMissing(filter) ==
  ~Truthy(Prop(filter, "reference")) \/ ~Truthy(Prop(filter, "referenceId"))

\* where: filter -- the rows of the topics table every filter key matches.
Matches(row, filter) == \A k \in DOMAIN filter : row[k] = filter[k]
MatchingRows(table, filter) ==
  { i \in 1..Len(table) : Matches(table[i], filter) }

\* ------------------------------------------------------------ entitlement
\* What axios.get on the authorization endpoint can end with: no answer within
\* the timeout, a transport error, or an HTTP response.  data is response.data
\* (hasData = FALSE: an empty body); a result without a content field, an
\* empty-string content and an empty object {} are distinct values.
HttpStatuses == {200, 201, 403, 500}
ResultObjects ==
  { [status |-> s] : s \in {200, 403} } \cup
  { [status |-> s, content |-> c] :
      s \in {200, 403}, c \in {"", "emptyObject", "members"} }
ResponseBodies ==
  { [k \in {} |-> ""] } \cup { [result |-> r] : r \in ResultObjects }
AuthResponses ==
  { [kind |-> k, status |-> 0, hasData |-> FALSE, data |-> [k2 \in {} |-> ""]] :
      k \in {"timeout", "neterr"} } \cup
  { [kind |-> "http", status |-> s, hasData |-> FALSE, data |-> [k2 \in {} |-> ""]] :
      s \in HttpStatuses } \cup
  { [kind |-> "http", status |-> s, hasData |-> TRUE, data |-> d] :
      s \in HttpStatuses, d \in ResponseBodies }

\* axios resolves a response whose status passes the default validateStatus
\* (2xx) and rejects everything else, a timeout and a transport error included.
AxiosResolves(resp) ==
  resp.kind = "http" /\ resp.status >= 200 /\ resp.status < 300

\* response.data && response.data.result && result.status == 200 && result.content
BodyGrants(resp) ==
  /\ resp.hasData
  /\ "result" \in DOMAIN resp.data
  /\ resp.data.result.status = 200
  /\ "content" \in DOMAIN resp.data.result
  /\ Truthy(resp.data.result.content)

\* The value userHasAccessToEntity resolves with once the endpoint was asked:
\* .then decides on the body, .catch resolves false.
EndpointGrants(resp) == AxiosResolves(resp) /\ BodyGrants(resp)

\* ------------------------------------------------------------ state
VARIABLES
  run,       \* per workflow: position in the promise chain and its locals
  topics,    \* rows of the postgres topics table, in insertion order
  users,     \* usernames that exist in Discourse
  posts,     \* Discourse private topics: posts[t] = title and usernames let in
  started,   \* requests received so far
  returned,  \* per (reference, referenceId, actor): topic ids answered with 200
  probe      \* input and result of one isolated userHasAccessToEntity call

vars == <<run, topics, users, posts, started, returned, probe>>

Keys == { <<"project", "42">>, <<"challenge", "42">> } \X Actors
EmptyFilter == [k \in {} |-> ""]
NoBody == [k \in {} |-> 0]

IdleRun ==
  [pc |-> "idle", actor |-> "", filter |-> EmptyFilter, path |-> "",
   pgTopic |-> NoTopic, newTopic |-> NoTopic, trace |-> <<>>,
   status |-> "", http |-> 0, error |-> "", threadId |-> NoTopic,
   body |-> NoBody, prior |-> {}, acting |-> {}]

NoProbe == [state |-> "off", reference |-> "", hasAccess |-> FALSE, asked |-> 0]

Init ==
  /\ run = [p \in Procs |-> IdleRun]
  /\ topics = <<>>
  /\ users = {}
  /\ posts = <<>>
  /\ started = 0
  /\ returned = [k \in Keys |-> {}]
  /\ probe = NoProbe

Settled(p) == run[p].pc \in {"idle", "done"}
KeyOf(r) ==
  << <<Prop(r.filter, "reference"), Prop(r.filter, "referenceId")>>, r.actor >>
Log(p, op, outcome) == Append(run[p].trace, <<op, outcome>>)

\* resp.status(500).send(...) in the final catch of the chain.
Failed(p, tr, reason) ==
  [run[p] EXCEPT !.pc = "done", !.trace = tr, !.status = "Failed",
                 !.http = 500, !.error = reason]

\* resp.status(200).send(topic.data): topic is what the chain resolved with.
Succeeded(p, tr, topic, t) ==
  [run[p] EXCEPT !.pc = "done", !.trace = tr, !.status = "Done", !.http = 200,
                 !.threadId = t,
                 !.body = IF "data" \in DOMAIN topic THEN topic.data ELSE NoBody]

\* What createPrivatePost resolves with, and what getTopic resolves with
\* (response.data, the topic document).
CreateResponse(t) == [status |-> 200, data |-> [topic_id |-> t]]
TopicDocument(t) == [id |-> t]

\* ------------------------------------------------------------ Discourse client
\* config.get('discourseSystemUsername'): the api_username of the client's
\* default parameters.
DISCOURSE_SYSTEM_USERNAME == "system"

\* util.isDiscourseAdmin: the system user is the administrator; the callers
\* of the model are ordinary members.
DiscourseAdmins == {DISCOURSE_SYSTEM_USERNAME}
isDiscourseAdmin(username) == username \in DiscourseAdmins

\* createPrivatePost: api_username is owner when one is given and is no admin.
CreatePostApiUsername(owner) ==
  IF Truthy(owner) /\ ~isDiscourseAdmin(owner)
    THEN owner ELSE DISCOURSE_SYSTEM_USERNAME

\* getTopic: api_username is the username unless it is an admin's.
GetTopicApiUsername(username) ==
  IF isDiscourseAdmin(username) THEN DISCOURSE_SYSTEM_USERNAME ELSE username

\* 'Discussion for ' + filter.reference + ' ' + filter.referenceId
Title(filter) == <<"Discussion for", filter["reference"], filter["referenceId"]>>

\* The run record with one more Discourse call and the identity it carried.
Acted(r, op, apiUsername) == [r EXCEPT !.acting = @ \cup {<<op, apiUsername>>}]

\* ------------------------------------------------------------ the handler
\* The synchronous head of the handler: parse the filter, answer 400 when
\* reference or referenceId is missing, otherwise start topicLookupExists.
Request(p) ==
  /\ Settled(p)
  /\ started < MaxRequests
  /\ started' = started + 1
  /\ \E a \in Actors, q \in Queries :
       LET f == ParseFilter(q)
           fresh == [IdleRun EXCEPT !.actor = a, !.filter = f]
       IN run' = [run EXCEPT ![p] =
            IF FilterMissing(f)
              THEN [fresh EXCEPT !.pc = "done", !.status = "ValidationError",
                                 !.http = 400]
              ELSE [fresh EXCEPT !.pc = "findAll",
                                 !.prior = IF KeyOf(fresh) \in Keys
                                             THEN returned[KeyOf(fresh)]
                                             ELSE {}]]
  /\ UNCHANGED <<topics, users, posts, returned, probe>>

\* The continuation checkAccessAndProvision resolves into: createPrivatePost
\* when the lookup found nothing, grantAccess when the first getTopic was 403.
\* (variant: provisioning is always followed by the creation of a topic)
AfterProvisionCreates(path) == "createPost"
AfterProvision(path) == IF path = "create" THEN "createPost" ELSE "grant"

\* db.topics.findAll({where: filter}) and the branch on result.length.
TopicLookup(p) ==
  /\ run[p].pc = "findAll"
  /\ LET r == run[p]
         found == MatchingRows(topics, r.filter)
     IN \/ run' = [run EXCEPT ![p] =
                Failed(p, Log(p, "topics.findAll", "error"), "findAll rejected")]
        \/ /\ DOMAIN r.filter \subseteq TopicColumns
           /\ found = {}
           /\ run' = [run EXCEPT ![p] =
                [r EXCEPT !.pc = "findOne", !.path = "create",
                          !.trace = Log(p, "topics.findAll", "empty")]]
        \/ /\ DOMAIN r.filter \subseteq TopicColumns
           /\ \E i \in found :
                run' = [run EXCEPT ![p] =
                  [r EXCEPT !.pc = "getTopic", !.path = "existing",
                            !.pgTopic = topics[i].discourseTopicId,
                            !.trace = Log(p, "topics.findAll", "found")]]
  /\ UNCHANGED <<topics, users, posts, started, returned, probe>>

\* getTopic answers ok only to a user Discourse lets into the topic; it may
\* refuse (403), fail with another status, or fail without any response.
GetTopicOutcomes(actor, t) ==
  (IF actor \in users /\ actor \in posts[t].allowed THEN {"ok"} ELSE {}) \cup
  {"403", "500", "noResponse"}

\* (variant: any failure of the first getTopic starts the reconciliation)
ReconcilesOnAnyFailure(path, outcome) == path = "existing"
\* (variant: the retried getTopic reconciles on 403 as the first one does)
ReconcilesAlways(path, outcome) == outcome = "403"
\* The .catch with the 403 test is attached to the first getTopic only; the
\* getTopic issued after grantAccess has no handler of its own.
Reconciles(path, outcome) == path = "existing" /\ outcome = "403"

\* discourseClient.getTopic(pgTopic.discourseTopicId, handle) and its handlers.
\* A rejection without a response makes error.response.status throw inside the
\* catch, which rejects the chain as any other failure does.
GetTopic(p) ==
  /\ run[p].pc = "getTopic"
  /\ LET r == run[p]
         t == r.pgTopic
     IN \E o \in GetTopicOutcomes(r.actor, t) :
          LET tr == Log(p, "getTopic", o)
          IN run' = [run EXCEPT ![p] = Acted(
               IF o = "ok" THEN Succeeded(p, tr, TopicDocument(t), t)
               ELSE IF Reconciles(r.path, o)
                 THEN [r EXCEPT !.pc = "findOne", !.path = "reconcile", !.trace = tr]
               ELSE Failed(p, tr, IF o = "noResponse" THEN "TypeError"
                                  ELSE "getTopic rejected"),
               "getTopic", GetTopicApiUsername(r.actor))]
          /\ returned' = IF o = "ok" /\ KeyOf(r) \in Keys
                           THEN [returned EXCEPT ![KeyOf(r)] = @ \cup {t}]
                           ELSE returned
  /\ UNCHANGED <<topics, users, posts, started, probe>>

\* (variant: every reference type is resolved true without the endpoint)
NeedsEndpointNever(reference) == FALSE
\* if(!result) resolve(true) else ask the endpoint.
NeedsEndpoint(reference) == reference \in referenceLookups

\* (variant: a negative check does not reject)
AfterAccessAlways(hasAccess) == "getUser"
\* if(!hasAccess) reject, else go on to getUser.
AfterAccess(hasAccess) == IF hasAccess THEN "getUser" ELSE "rejected"

\* db.referenceLookups.findOne: no row resolves true at once; a row leads to
\* the endpoint; a rejection is handled nowhere, so the promise never settles.
RouteLookup(p) ==
  /\ run[p].pc = "findOne"
  /\ LET r == run[p]
         tr == Log(p, "referenceLookups.findOne", "ok")
     IN \/ run' = [run EXCEPT ![p] =
                [r EXCEPT !.pc = "hung",
                          !.trace = Log(p, "referenceLookups.findOne", "error")]]
        \/ /\ NeedsEndpoint(r.filter["reference"])
           /\ run' = [run EXCEPT ![p] = [r EXCEPT !.pc = "authGet", !.trace = tr]]
        \/ /\ ~NeedsEndpoint(r.filter["reference"])
           /\ run' = [run EXCEPT ![p] =
                [r EXCEPT !.pc = AfterAccess(TRUE),
                          !.trace = Append(tr, <<"hasAccess", "true">>)]]
  /\ UNCHANGED <<topics, users, posts, started, returned, probe>>

\* axios.get(endpoint) of userHasAccessToEntity and the hasAccess branch of
\* checkAccessAndProvision.
AccessCheck(p) ==
  /\ run[p].pc = "authGet"
  /\ \E resp \in AuthResponses :
       LET r == run[p]
           hasAccess == EndpointGrants(resp)
           tr == Append(Log(p, "authorization.get", "sent"),
                        <<"hasAccess", IF hasAccess THEN "true" ELSE "false">>)
       IN run' = [run EXCEPT ![p] =
            IF AfterAccess(hasAccess) = "rejected"
              THEN Failed(p, tr, "User doesn't have access to entity")
              ELSE [r EXCEPT !.pc = AfterAccess(hasAccess), !.trace = tr]]
  /\ UNCHANGED <<topics, users, posts, started, returned, probe>>

\* discourseClient.getUser(handle): success ends provisioning, any failure
\* (not found or otherwise) goes on to create the user.
GetUser(p) ==
  /\ run[p].pc = "getUser"
  /\ LET r == run[p]
     IN \/ /\ r.actor \in users
           /\ run' = [run EXCEPT ![p] =
                [r EXCEPT !.pc = AfterProvision(r.path),
                          !.trace = Log(p, "getUser", "ok")]]
        \/ /\ r.actor \notin users
           /\ run' = [run EXCEPT ![p] =
                [r EXCEPT !.pc = "memberGet",
                          !.trace = Log(p, "getUser", "notFound")]]
        \/ run' = [run EXCEPT ![p] =
                [r EXCEPT !.pc = "memberGet",
                          !.trace = Log(p, "getUser", "error")]]
  /\ UNCHANGED <<topics, users, posts, started, returned, probe>>

\* getTopcoderUser: the member service profile, or a rejection.
GetTopcoderUser(p) ==
  /\ run[p].pc = "memberGet"
  /\ LET r == run[p]
     IN \/ run' = [run EXCEPT ![p] =
                [r EXCEPT !.pc = "createUser",
                          !.trace = Log(p, "memberService.get", "ok")]]
        \/ run' = [run EXCEPT ![p] =
                Failed(p, Log(p, "memberService.get", "error"),
                       "member service rejected")]
  /\ UNCHANGED <<topics, users, posts, started, returned, probe>>

\* What Discourse can answer to createUser: it creates the user only when
\* the username is free (success=true); success=false or a failed request
\* otherwise.
CreateUserOutcomes(actor) ==
  (IF actor \notin users THEN {"ok"} ELSE {}) \cup {"success=false", "error"}

\* (variant: the success flag of the answer is not looked at)
CreateUserResolvesUnchecked(outcome) == outcome # "error"
\* if(result.data.success) return result.data, else reject.
CreateUserResolves(outcome) == outcome = "ok"

\* discourseClient.createUser with the client's default api_username, and its
\* handlers: an unsuccessful answer and a failed request both reject.
CreateUser(p) ==
  /\ run[p].pc = "createUser"
  /\ \E o \in CreateUserOutcomes(run[p].actor) :
       LET r == run[p]
           tr == Log(p, "createUser", o)
       IN /\ users' = IF o = "ok" THEN users \cup {r.actor} ELSE users
          /\ run' = [run EXCEPT ![p] = Acted(
               IF CreateUserResolves(o)
                 THEN [r EXCEPT !.pc = AfterProvision(r.path), !.trace = tr]
                 ELSE Failed(p, tr, IF o = "error" THEN "createUser rejected"
                                    ELSE "createUser unsuccessful"),
               "createUser", DISCOURSE_SYSTEM_USERNAME)]
  /\ UNCHANGED <<topics, posts, started, returned, probe>>

\* What Discourse can answer to the post: 200 or another 2xx status with the
\* private topic made for the target user, or a failure without a topic.
CreatePostOutcomes == {"200", "2xx", "error"}

\* (variant: the status of the answer is not looked at)
CreatePostAcceptedAlways(outcome) == TRUE
\* if(response.status == 200): only then is the mapping built and saved.
CreatePostAccepted(outcome) == outcome = "200"

\* discourseClient.createPrivatePost(title, post, handle): the handler passes
\* no owner.  A 200 answer goes on to save the mapping, another 2xx answer is
\* rejected although Discourse made the topic, a failure rejects.
CreatePrivatePost(p) ==
  /\ run[p].pc = "createPost"
  /\ \E o \in CreatePostOutcomes :
       LET r == run[p]
           t == Len(posts) + 1
           tr == Log(p, "createPrivatePost", o)
       IN /\ posts' = IF o = "error" THEN posts
                       ELSE Append(posts, [title |-> Title(r.filter),
                                           allowed |-> {r.actor}])
          /\ run' = [run EXCEPT ![p] = Acted(
               IF CreatePostAccepted(o)
                 THEN [r EXCEPT !.pc = "save", !.newTopic = t, !.trace = tr]
                 ELSE Failed(p, tr, IF o = "error" THEN "createPrivatePost rejected"
                                    ELSE "createPrivatePost not 200"),
               "createPrivatePost", CreatePostApiUsername(Undefined))]
  /\ UNCHANGED <<topics, users, started, returned, probe>>

\* db.topics.build({...}): the row pgTopic.save() inserts.
TopicRow(filter, t, actor) ==
  [reference |-> filter["reference"], referenceId |-> filter["referenceId"],
   discourseTopicId |-> t, createdBy |-> actor]

\* (variant: save replaces the row of the same entity when there is one)
Upserted(table, row) ==
  IF \E i \in 1..Len(table) : table[i].reference = row.reference
                               /\ table[i].referenceId = row.referenceId
    THEN [i \in 1..Len(table) |->
            IF table[i].reference = row.reference
               /\ table[i].referenceId = row.referenceId
              THEN row ELSE table[i]]
    ELSE Append(table, row)
\* pgTopic.save() inserts a new row; no row is replaced or removed.
Inserted(table, row) == Append(table, row)

\* pgTopic.save() and its handlers: the chain resolves with the
\* createPrivatePost response, or rejects with the database error.
SaveTopic(p) ==
  /\ run[p].pc = "save"
  /\ LET r == run[p]
         t == r.newTopic
     IN \/ /\ topics' = Inserted(topics, TopicRow(r.filter, t, r.actor))
           /\ run' = [run EXCEPT ![p] =
                Succeeded(p, Log(p, "topic.save", "ok"), CreateResponse(t), t)]
           /\ returned' = IF KeyOf(r) \in Keys
                            THEN [returned EXCEPT ![KeyOf(r)] = @ \cup {t}]
                            ELSE returned
        \/ /\ topics' = topics
           /\ run' = [run EXCEPT ![p] =
                Failed(p, Log(p, "topic.save", "error"), "save rejected")]
           /\ returned' = returned
  /\ UNCHANGED <<users, posts, started, probe>>

\* What Discourse can answer to the invitation: the member is added to the
\* topic, or the request fails.
GrantOutcomes == {"ok", "error"}

\* (variant: the continuation runs after a failed grantAccess as well)
GrantContinuesAlways(outcome) == TRUE
\* grantAccess(...).then(() => getTopic(...)): the continuation runs only
\* when grantAccess resolved; a rejection passes it by.
GrantContinues(outcome) == outcome = "ok"

\* discourseClient.grantAccess(handle, topicId) with the client's default
\* api_username, then getTopic once more.
GrantAccess(p) ==
  /\ run[p].pc = "grant"
  /\ \E o \in GrantOutcomes :
       LET r == run[p]
           t == r.pgTopic
           tr == Log(p, "grantAccess", o)
       IN /\ posts' = IF o = "ok"
                         THEN [posts EXCEPT ![t].allowed = @ \cup {r.actor}]
                         ELSE posts
          /\ run' = [run EXCEPT ![p] = Acted(
               IF GrantContinues(o)
                 THEN [r EXCEPT !.pc = "getTopic", !.path = "retry", !.trace = tr]
                 ELSE Failed(p, tr, "grantAccess rejected"),
               "grantAccess", DISCOURSE_SYSTEM_USERNAME)]
  /\ UNCHANGED <<topics, users, started, returned, probe>>

Step(p) ==
  \/ TopicLookup(p)
  \/ GetTopic(p)
  \/ RouteLookup(p)
  \/ AccessCheck(p)
  \/ GetUser(p)
  \/ GetTopcoderUser(p)
  \/ CreateUser(p)
  \/ CreatePrivatePost(p)
  \/ SaveTopic(p)
  \/ GrantAccess(p)

Next == \E p \in Procs : Request(p) \/ Step(p)

\* Requests are served concurrently.
Spec == Init /\ [][Next]_vars

\* A request arrives only when no other request is in progress.
RequestAlone(p) == (\A q \in Procs : Settled(q)) /\ Request(p)
NextSeq == \E p \in Procs : RequestAlone(p) \/ Step(p)
SpecSeq == Init /\ [][NextSeq]_vars

\* ------------------------------------------------------------ one call of
\* userHasAccessToEntity on its own: the reference type and the answer the
\* endpoint would give are the inputs, the resolved value is the result.
InitAccess ==
  /\ run = [p \in Procs |-> IdleRun]
  /\ topics = <<>>
  /\ users = {}
  /\ posts = <<>>
  /\ started = 0
  /\ returned = [k \in Keys |-> {}]
  /\ probe \in { [state |-> "findOne", reference |-> ref, response |-> resp,
                  hasAccess |-> FALSE, asked |-> 0] :
                 ref \in {"project", "challenge"}, resp \in AuthResponses }

\* findOne resolved: resolve(true) without a route, axios.get with one.
ProbeLookup ==
  /\ probe.state = "findOne"
  /\ probe' = IF NeedsEndpoint(probe.reference)
                THEN [probe EXCEPT !.state = "authGet"]
                ELSE [probe EXCEPT !.state = "resolved", !.hasAccess = TRUE]
  /\ UNCHANGED <<run, topics, users, posts, started, returned>>

\* axios.get settled: resolve(true) or resolve(false).
ProbeEndpoint ==
  /\ probe.state = "authGet"
  /\ probe' = [probe EXCEPT !.state = "resolved", !.asked = @ + 1,
                            !.hasAccess = EndpointGrants(probe.response)]
  /\ UNCHANGED <<run, topics, users, posts, started, returned>>

NextAccess == ProbeLookup \/ ProbeEndpoint
SpecAccess == InitAccess /\ [][NextAccess]_vars

\* ============================================================ properties
Runs == { run[p] : p \in Procs }
Op(tr, i) == tr[i][1]
Count(tr, op) == Cardinality({ i \in 1..Len(tr) : tr[i][1] = op })
ForumOps == {"getTopic", "createPrivatePost", "grantAccess"}
UserEnsured == { <<"getUser", "ok">>, <<"createUser", "ok">> }

\* C1: the topics table never holds two rows for one (reference, referenceId),
\* also when concurrent requests for the same entity both find no row.
C1_OneMappingPerEntity ==
  \A i, j \in 1..Len(topics) :
    (topics[i].reference = topics[j].reference
     /\ topics[i].referenceId = topics[j].referenceId) => i = j

\* C2: a request answered 200 after an earlier request of the same actor for
\* the same (reference, referenceId) was answered 200 gets the same topic id
\* and creates no topic in Discourse.
C2_GetOrCreateIdempotent ==
  \A r \in Runs :
    (r.status = "Done" /\ r.prior # {}) =>
      (r.prior = {r.threadId} /\ Count(r.trace, "createPrivatePost") = 0)

\* C3: getTopic is called at most twice and grantAccess at most once in a run;
\* a first getTopic answered 403 is followed by the access check; the second
\* getTopic comes directly after a successful grantAccess, itself after a
\* positive access check and an ensured user, in that order; and a run whose
\* second getTopic did not succeed has failed.
C3_SingleRetry ==
  \A r \in Runs :
    LET tr == r.trace
        gets == { i \in 1..Len(tr) : Op(tr, i) = "getTopic" }
    IN /\ Cardinality(gets) <= 2
       /\ Count(tr, "grantAccess") <= 1
       /\ \A i \in gets :
            (tr[i][2] = "403" /\ i = 2 /\ Len(tr) > i) =>
              Op(tr, i + 1) = "referenceLookups.findOne"
       /\ \A i \in gets :
            i > 2 =>
              /\ tr[2] = <<"getTopic", "403">>
              /\ tr[i - 1] = <<"grantAccess", "ok">>
              /\ \E a, u \in 1..Len(tr) :
                   /\ 2 < a /\ a < u /\ u < i - 1
                   /\ tr[a] = <<"hasAccess", "true">>
                   /\ tr[u] \in UserEnsured
              /\ i = Len(tr)
              /\ r.pc = "done"
              /\ (tr[i][2] # "ok" => r.status = "Failed")
              /\ (tr[i][2] = "ok" => r.status = "Done")

C3_Witness ==
  \E r \in Runs :
    /\ Count(r.trace, "getTopic") = 2
    /\ r.trace[Len(r.trace)] = <<"getTopic", "403">>
    /\ r.status = "Failed"

\* The answer that entitles according to the endpoint contract: HTTP 200, a
\* result with status 200 and a content that is there and is not the empty
\* string (an object, {} included, counts as content).
EntitlingAnswer(resp) ==
  /\ resp.kind = "http"
  /\ resp.status = 200
  /\ resp.hasData
  /\ "result" \in DOMAIN resp.data
  /\ resp.data.result.status = 200
  /\ "content" \in DOMAIN resp.data.result
  /\ resp.data.result.content # ""

\* C4: for a reference type with an authorization endpoint, the access check
\* resolves true only on an entitling answer; a timeout, a transport error, a
\* non-200 HTTP status or a body without result or content resolves false.
C4_FailClosed ==
  (probe.state = "resolved" /\ probe.reference \in referenceLookups) =>
    (probe.hasAccess => EntitlingAnswer(probe.response))

\* C5: a run for a reference type without an authorization endpoint never
\* asks an endpoint and its access check resolves true right after the route
\* lookup; and an access check resolves true without an endpoint request only
\* for such a reference type.
C5_DefaultAllowOnlyUnconfigured ==
  \A r \in Runs :
    LET tr == r.trace
        routed == Prop(r.filter, "reference") \in referenceLookups
    IN /\ ~routed => Count(tr, "authorization.get") = 0
       /\ \A i \in 1..Len(tr) :
            /\ (~routed /\ tr[i] = <<"referenceLookups.findOne", "ok">>) =>
                 (Len(tr) > i /\ tr[i + 1] = <<"hasAccess", "true">>)
            /\ (tr[i] = <<"hasAccess", "true">>
                /\ Op(tr, i - 1) # "authorization.get") => ~routed
            /\ (tr[i] = <<"hasAccess", "false">>) =>
                 Op(tr, i - 1) = "authorization.get"

C5_Witness ==
  \E r \in Runs :
    /\ Prop(r.filter, "reference") = "challenge"
    /\ \E i \in 1..Len(r.trace) : r.trace[i] = <<"hasAccess", "true">>
    /\ r.status = "Done"

\* C6: a run answered 200 has checked the actor's access to the entity in
\* that run, with a positive result (stated for the reference types that
\* have an authorization endpoint, where the check can come out negative).
C6_DoneOnlyAfterAccessCheck ==
  \A r \in Runs :
    (r.status = "Done" /\ Prop(r.filter, "reference") \in referenceLookups) =>
      \E i \in 1..Len(r.trace) : r.trace[i] = <<"hasAccess", "true">>

\* C7: every getTopic, createPrivatePost and grantAccess of a run comes after
\* the run has found or created the actor's Discourse user.
C7_UserBeforeForumOperation ==
  \A r \in Runs :
    \A i \in 1..Len(r.trace) :
      Op(r.trace, i) \in ForumOps =>
        \E j \in 1..(i - 1) : r.trace[j] \in UserEnsured

\* A filter without a usable reference or referenceId.
LacksReference(f) ==
  \/ "reference" \notin DOMAIN f
  \/ "referenceId" \notin DOMAIN f
  \/ f["reference"] = ""
  \/ f["referenceId"] = ""

\* C8: a request whose filter lacks reference or referenceId is answered 400
\* at once: it makes no call and leaves every table and Discourse unchanged.
C8_ValidationShortCircuit ==
  [][\A p \in Procs :
       (run'[p] # run[p] /\ LacksReference(run'[p].filter)) =>
         /\ run'[p].pc = "done"
         /\ run'[p].status = "ValidationError"
         /\ run'[p].http = 400
         /\ run'[p].trace = <<>>
         /\ UNCHANGED <<topics, users, posts, returned>>]_vars

C8_Witness ==
  \E r \in Runs :
    /\ r.status = "ValidationError"
    /\ "reference" \in DOMAIN r.filter
    /\ "referenceId" \notin DOMAIN r.filter

\* C9: a row of the topics table is never removed or changed, and no step of
\* a run that found a row (direct fetch, reconciliation, retry) changes the
\* table.
C9_MappingImmutable ==
  [][/\ Len(topics') >= Len(topics)
     /\ \A i \in 1..Len(topics) : topics'[i] = topics[i]
     /\ \A p \in Procs :
          (run'[p] # run[p] /\ run[p].path \in {"existing", "reconcile", "retry"}
           /\ ~Settled(p)) => topics' = topics]_vars

C9_Witness ==
  /\ Len(topics) = 1
  /\ \E r \in Runs :
       /\ r.status = "Done"
       /\ r.path = "retry"

\* C10: a negative access check is the last thing a run does: the run has
\* failed with the access error and nothing is called after it.
C10_DenialIsTerminal ==
  \A r \in Runs :
    \A i \in 1..Len(r.trace) :
      r.trace[i] = <<"hasAccess", "false">> =>
        /\ i = Len(r.trace)
        /\ r.pc = "done"
        /\ r.status = "Failed"
        /\ r.http = 500
        /\ r.error = "User doesn't have access to entity"

C10_Witness ==
  \E r \in Runs :
    /\ r.path = "reconcile"
    /\ r.trace[Len(r.trace)] = <<"hasAccess", "false">>
    /\ r.status = "Failed"

\* C11: a request that passed validation is never left suspended: as long as
\* it has sent no response, one of its pending calls can still complete and
\* move it on (every call of the model completes, with success or failure).
C11_NoRunSuspended ==
  \A p \in Procs : Settled(p) \/ ENABLED Step(p)

\* C12: when the actor's Discourse user already exists as a run reaches
\* getUser (an earlier provisioning created it), the run finds the user there
\* and goes on without asking the member service or calling createUser.
C12_SecondEnsureUserCreatesNothing ==
  [][\A p \in Procs :
       (run[p].pc = "getUser" /\ run[p].actor \in users /\ run'[p] # run[p]) =>
         /\ run'[p].trace[Len(run'[p].trace)] = <<"getUser", "ok">>
         /\ run'[p].pc \notin {"memberGet", "createUser"}]_vars

\* The Discourse calls made for the requesting member, and the administrative
\* ones (inviting a member to a topic is done by the system user).
OnBehalfOps == {"createPrivatePost", "getTopic"}
AdministrativeOps == {"createUser", "grantAccess"}

\* C13: every createPrivatePost and getTopic call of a run carries the
\* requesting member as api_username, and the system user appears as
\* api_username on administrative calls only.
C13_Attribution ==
  \A r \in Runs : \A a \in r.acting :
    /\ a[1] \in OnBehalfOps => a[2] = r.actor
    /\ a[2] = DISCOURSE_SYSTEM_USERNAME => a[1] \in AdministrativeOps

\* C14: createPrivatePost is called only in a run whose topics.findAll found
\* no row; a run that found a row creates no topic in Discourse, whatever
\* its getTopic calls answer.
C14_CreateOnlyOnMiss ==
  \A r \in Runs :
    LET tr == r.trace
    IN /\ Count(tr, "createPrivatePost") > 0 =>
            tr[1] = <<"topics.findAll", "empty">>
       /\ (Len(tr) > 0 /\ tr[1] = <<"topics.findAll", "found">>) =>
            /\ Count(tr, "createPrivatePost") = 0
            /\ r.newTopic = NoTopic

C14_Witness ==
  \E r \in Runs :
    /\ Len(r.trace) > 0
    /\ r.trace[1] = <<"topics.findAll", "found">>
    /\ \E i \in 1..Len(r.trace) : r.trace[i] = <<"createUser", "ok">>
    /\ \E i \in 1..Len(r.trace) : r.trace[i] = <<"grantAccess", "ok">>
    /\ r.trace[Len(r.trace)] = <<"getTopic", "500">>
    /\ r.status = "Failed"

\* C15: a row is added to the topics table only by a run that, in this order,
\* got a positive access check, found or created the actor's Discourse user
\* and had createPrivatePost answered with a created topic as its last call;
\* the row carries the run's entity and the id of that topic, and no other
\* row changes.  A createPrivatePost that fails ends the run with a failure
\* response and leaves the topics table as it was.
C15_PersistOnlyAfterCreation ==
  [][\A p \in Procs :
       LET r == run[p]
           tr == r.trace
           row == topics'[Len(topics')]
       IN /\ (run'[p] # r /\ topics' # topics) =>
               /\ topics' = Append(topics, row)
               /\ \E a, u \in 1..Len(tr) :
                    /\ a < u /\ u < Len(tr)
                    /\ tr[a] = <<"hasAccess", "true">>
                    /\ tr[u] \in UserEnsured
               /\ Op(tr, Len(tr)) = "createPrivatePost"
               /\ tr[Len(tr)][2] # "error"
               /\ r.newTopic \in 1..Len(posts)
               /\ posts[r.newTopic].title = Title(r.filter)
               /\ row.discourseTopicId = r.newTopic
               /\ row.reference = r.filter["reference"]
               /\ row.referenceId = r.filter["referenceId"]
          /\ (run'[p] # r /\ r.pc = "createPost"
              /\ run'[p].trace[Len(run'[p].trace)] = <<"createPrivatePost", "error">>) =>
               /\ run'[p].pc = "done"
               /\ run'[p].status = "Failed"
               /\ run'[p].http = 500
               /\ topics' = topics
               /\ posts' = posts]_vars

C15_Witness ==
  \E r \in Runs :
    /\ r.status = "Done"
    /\ r.trace[Len(r.trace)] = <<"topic.save", "ok">>
    /\ \E i \in 1..Len(r.trace) : r.trace[i] = <<"createUser", "ok">>
    /\ \E i \in 1..Len(topics) : topics[i].discourseTopicId = r.newTopic

\* The Discourse topics made for the entity of a filter that no row of the
\* topics table points to (left by a run that failed after creating one).
UnmappedThreads(filter) ==
  { t \in 1..Len(posts) :
      /\ posts[t].title = Title(filter)
      /\ \A i \in 1..Len(topics) : topics[i].discourseTopicId # t }

\* C16: when an earlier run failed after it had created the Discourse topic
\* of an entity, a later request for that entity whose calls all succeed
\* creates no second Discourse topic for it.
C16_ResumeCreatesNoSecondThread ==
  [][\A p \in Procs :
       (/\ run[p].pc = "createPost"
        /\ UnmappedThreads(run[p].filter) # {}
        /\ run'[p] # run[p]
        /\ run'[p].trace[Len(run'[p].trace)] = <<"createPrivatePost", "200">>) =>
         posts' = posts]_vars

\* C17: a run that found no Discourse user for its actor, and whose
\* createUser is refused as a duplicate because another run for the same
\* actor created the user in between, does not fail for that: it goes on
\* past provisioning.
C17_ConcurrentProvisioningHarmless ==
  [][\A p \in Procs :
       (/\ run[p].pc = "createUser"
        /\ \E i \in 1..Len(run[p].trace) :
             run[p].trace[i] = <<"getUser", "notFound">>
        /\ run[p].actor \in users
        /\ run'[p] # run[p]
        /\ run'[p].trace[Len(run'[p].trace)] = <<"createUser", "success=false">>) =>
         /\ run'[p].status # "Failed"
         /\ run'[p].pc = AfterProvision(run[p].path)]_vars

\* C18: the member service and createUser are called only after getUser
\* answered that the user does not exist: not after getUser found the user,
\* and not after getUser failed for another reason.
C18_CreateOnlyOnNotFound ==
  \A r \in Runs :
    \A i \in 1..Len(r.trace) :
      /\ Op(r.trace, i) \in {"memberService.get", "createUser"} =>
           \E j \in 1..(i - 1) : r.trace[j] = <<"getUser", "notFound">>
      /\ (r.trace[i] = <<"getUser", "ok">> /\ i < Len(r.trace)) =>
           Op(r.trace, i + 1) \notin {"memberService.get", "createUser"}

\* The events with which provisioning the Discourse user fails.
ProvisioningFailures ==
  { <<"memberService.get", "error">>,
    <<"createUser", "success=false">>, <<"createUser", "error">> }

\* C19: a failed member service lookup, a createUser answered success=false
\* and a failed createUser request are each the last call of their run, which
\* is answered with a failure; no createUser follows a failed lookup,
\* provisioning is not tried again, and the run makes no createPrivatePost,
\* grantAccess, further getTopic or topic.save.
C19_ProvisioningFailureTerminal ==
  \A r \in Runs :
    LET tr == r.trace
    IN /\ Count(tr, "getUser") <= 1
       /\ Count(tr, "memberService.get") <= 1
       /\ Count(tr, "createUser") <= 1
       /\ \A i \in 1..Len(tr) :
            tr[i] \in ProvisioningFailures =>
              /\ i = Len(tr)
              /\ r.pc = "done"
              /\ r.status = "Failed"
              /\ r.http = 500
              /\ tr[i][1] = "memberService.get" => Count(tr, "createUser") = 0
              /\ Count(tr, "createPrivatePost") = 0
              /\ Count(tr, "grantAccess") = 0
              /\ Count(tr, "topic.save") = 0
              /\ \A j \in 1..Len(tr) : Op(tr, j) = "getTopic" => j = 2

C19_Witness ==
  \E r \in Runs :
    /\ r.status = "Failed"
    /\ Len(r.trace) > 2
    /\ r.trace[2] = <<"getTopic", "403">>
    /\ r.trace[Len(r.trace)] = <<"createUser", "success=false">>

\* C20: when the getTopic for a found row fails with anything but 403
\* (another status, or no response at all), it is the last call of the run:
\* no access check, no provisioning, no grantAccess and no second getTopic
\* follow, and the run is answered with a failure.
C20_ReconcileOnlyOn403 ==
  \A r \in Runs :
    LET tr == r.trace
    IN (/\ Len(tr) >= 2
        /\ tr[1] = <<"topics.findAll", "found">>
        /\ Op(tr, 2) = "getTopic"
        /\ tr[2][2] \notin {"ok", "403"}) =>
         /\ Len(tr) = 2
         /\ r.pc = "done"
         /\ r.status = "Failed"
         /\ r.http = 500

C20_Witness ==
  \E r \in Runs :
    /\ r.status = "Failed"
    /\ r.trace = << <<"topics.findAll", "found">>, <<"getTopic", "noResponse">> >>
    /\ r.error = "TypeError"

\* C21: grantAccess is called only in a run that found a row, had its first
\* getTopic answered 403 and then, in this order, got a positive access check
\* and found or created the actor's Discourse user; it is never called in a
\* run that creates a topic.  A failed grantAccess is the last call of its
\* run: no second getTopic follows and the run is answered with a failure.
C21_GrantFailureStopsReconciliation ==
  \A r \in Runs :
    LET tr == r.trace
    IN \A i \in 1..Len(tr) :
         Op(tr, i) = "grantAccess" =>
           /\ tr[1] = <<"topics.findAll", "found">>
           /\ tr[2] = <<"getTopic", "403">>
           /\ Count(tr, "createPrivatePost") = 0
           /\ \E a, u \in 1..Len(tr) :
                /\ 2 < a /\ a < u /\ u < i
                /\ tr[a] = <<"hasAccess", "true">>
                /\ tr[u] \in UserEnsured
           /\ tr[i][2] = "error" =>
                /\ i = Len(tr)
                /\ Count(tr, "getTopic") = 1
                /\ r.pc = "done"
                /\ r.status = "Failed"
                /\ r.http = 500

C21_Witness ==
  \E r \in Runs :
    /\ r.status = "Failed"
    /\ r.error = "grantAccess rejected"
    /\ r.trace[Len(r.trace)] = <<"grantAccess", "error">>

====
